---- MODULE Spec2Model ----
(***************************************************************************)
(* Model of text_diff_merge.py (DiffMergeApp): the three Tk text widgets   *)
(* (left, right, merged), the spacer tag, the stored opcodes, the block    *)
(* list, the navigation cursor and the handlers behind the buttons.        *)
(*                                                                         *)
(* A text widget is a sequence of characters that always ends with Tk's    *)
(* final newline, plus the set of character positions carrying the         *)
(* "spacer" tag.  Positions are 1-based; position Len(chars)+1 is Tk's     *)
(* index "end".  Line and opcode indices keep the code's conventions:      *)
(* widget lines are 1-based, opcode ranges are 0-based and half-open.      *)
(*                                                                         *)
(* Left out: save_merge (it writes a file and changes nothing the other    *)
(* handlers read), the highlight and "current" tags, scrolling, the line   *)
(* number canvases, and text typed into the widgets by hand.               *)
(***************************************************************************)
EXTENDS Integers, Sequences, FiniteSets, TLC

\* ------------------------------------------------------------- bounds --
\* Most lines a loaded file has in the application specification.
MaxLines == 2
\* Most characters the merged document holds before merging stops.
MaxMerge == 2
\* Most files read in a run of the application specification.
MaxLoads == 2
\* Most lines of a side in the aligner specification.
AlignMaxLines == 3
\* Most lines of a side in the navigation specification.
NavMaxLines == 4
\* Most lines of a side in the merge specification.
MergeMaxLines == 3

NL == "\n"
\* Characters a line is made of; a line is empty or one of these.
LineChars == {"a"}
AlignLineChars == {"a", "b"}
\* None of Optional[int] (current_block_index) and of Optional[str].
None == -1

Min(x, y) == IF x < y THEN x ELSE y
Max(x, y) == IF x > y THEN x ELSE y

\* ------------------------------------------------ Python str helpers --
\* str.splitlines(): split at line boundaries; a final line break opens
\* no further (empty) line; the empty string has no lines.
RECURSIVE splitlines(_)
splitlines(s) ==
    IF s = <<>> THEN <<>>
    ELSE LET brk == {k \in 1..Len(s) : s[k] = NL}
         IN  IF brk = {} THEN <<s>>
             ELSE LET k == CHOOSE x \in brk : \A y \in brk : x <= y
                  IN  <<SubSeq(s, 1, k - 1)>> \o splitlines(SubSeq(s, k + 1, Len(s)))

\* str.strip(): leading and trailing whitespace removed.
RECURSIVE strip(_)
strip(s) ==
    IF s = <<>> THEN s
    ELSE IF s[1] = NL THEN strip(Tail(s))
    ELSE IF s[Len(s)] = NL THEN strip(SubSeq(s, 1, Len(s) - 1))
    ELSE s

\* "".join(pieces)
RECURSIVE join(_)
join(pieces) == IF pieces = <<>> THEN <<>> ELSE pieces[1] \o join(Tail(pieces))

\* ------------------------------------------------ Tk text widget ------
\* tk.Text(): an empty widget holds the final newline only.
NewText == [chars |-> <<NL>>, spacer |-> {}]

\* index "end": the position after the final newline.
TkEnd(w) == Len(w.chars) + 1

\* Number of lines of the widget (the line of index "end-1c").
NumLines(w) == Cardinality({k \in 1..Len(w.chars) : w.chars[k] = NL})

\* The line (1-based) a position lies on.
LineOf(w, pos) == 1 + Cardinality({k \in 1..(pos - 1) : w.chars[k] = NL})

\* index f"{line}.0": the start of the line; a line past the last one is
\* "end", a line before the first one is the first.
LineStart(w, line) ==
    IF line <= 1 THEN 1
    ELSE IF line > NumLines(w) THEN TkEnd(w)
    ELSE 1 + CHOOSE k \in 1..Len(w.chars) :
                 w.chars[k] = NL /\ LineOf(w, k) = line - 1

\* index f"{line}.0 +1line": same column on the next line, "end" after
\* the last line.
NextLineStart(w, line) == LineStart(w, LineOf(w, LineStart(w, line)) + 1)

\* widget.get(index1, index2)
TkGet(w, p1, p2) == SubSeq(w.chars, p1, p2 - 1)

\* Positions of a tag set after `count` characters were inserted at `p`.
ShiftUp(tags, p, count) ==
    {q \in tags : q < p} \cup {q + count : q \in {r \in tags : r >= p}}

\* widget.insert(index, chars) with no tag list: an insertion at "end"
\* goes before the final newline; the new characters get the tags that
\* the characters on both sides of the insertion point carry.
TkInsert(w, pos, s) ==
    LET p == IF pos >= TkEnd(w) THEN Len(w.chars) ELSE pos
        both == p > 1 /\ (p - 1) \in w.spacer /\ p \in w.spacer
    IN  [chars  |-> SubSeq(w.chars, 1, p - 1) \o s \o SubSeq(w.chars, p, Len(w.chars)),
         spacer |-> ShiftUp(w.spacer, p, Len(s))
                    \cup (IF both THEN p..(p + Len(s) - 1) ELSE {})]

\* widget.delete(index1, index2).  A deletion that reaches "end" leaves
\* the final newline in place, strips its tags and, when it starts at the
\* beginning of a line other than the first, takes the newline before it.
TkDelete(w, pos1, pos2) ==
    IF pos1 >= pos2 THEN w
    ELSE LET atEnd == pos2 >= TkEnd(w)
             p2 == IF atEnd THEN Len(w.chars) ELSE pos2
             lineStart == pos1 > 1 /\ w.chars[pos1 - 1] = NL
             p1 == IF atEnd /\ lineStart THEN pos1 - 1 ELSE pos1
             tags == IF atEnd THEN w.spacer \ {Len(w.chars)} ELSE w.spacer
         IN  IF p1 >= p2 THEN [w EXCEPT !.spacer = tags]
             ELSE [chars  |-> SubSeq(w.chars, 1, p1 - 1)
                              \o SubSeq(w.chars, p2, Len(w.chars)),
                   spacer |-> {q \in tags : q < p1}
                              \cup {q - (p2 - p1) : q \in {r \in tags : r >= p2}}]

\* widget.tag_add("spacer", index1, index2)
TagAdd(w, p1, p2) ==
    [w EXCEPT !.spacer = @ \cup {q \in p1..(p2 - 1) : q <= Len(w.chars)}]

\* widget.tag_remove("spacer", "1.0", tk.END)
TagRemoveAll(w) == [w EXCEPT !.spacer = {}]

\* First positions of the ranges of widget.tag_ranges("spacer").
RangeStarts(w) == {q \in w.spacer : (q - 1) \notin w.spacer}

\* End (exclusive) of the tagged range that starts at q.
RangeEnd(w, q) ==
    CHOOSE e \in (q + 1)..TkEnd(w) :
        /\ \A r \in q..(e - 1) : r \in w.spacer
        /\ e \notin w.spacer

\* widget.tag_ranges("spacer") as a sequence of <<start, end>> in order.
RECURSIVE RangesFrom(_, _)
RangesFrom(w, from) ==
    LET starts == {q \in RangeStarts(w) : q >= from}
    IN  IF starts = {} THEN <<>>
        ELSE LET q == CHOOSE x \in starts : \A y \in starts : x <= y
             IN  <<<<q, RangeEnd(w, q)>>>> \o RangesFrom(w, RangeEnd(w, q))

tag_ranges(w) == RangesFrom(w, 1)

\* bool(widget.tag_nextrange("spacer", index1, index2)): a tagged range
\* begins at a position in [index1, index2).
tag_nextrange(w, p1, p2) == \E q \in RangeStarts(w) : p1 <= q /\ q < p2

\* ------------------------------------- difflib.SequenceMatcher(None) --
\* The length of b from which SequenceMatcher's autojunk is in force.
AutojunkLen == 200

\* Elements of b that autojunk drops from b2j: with 200 or more elements,
\* those that occur more than len(b) // 100 + 1 times.
bpopular(b) ==
    IF Len(b) >= AutojunkLen
    THEN {b[j] : j \in {x \in 1..Len(b) :
              Cardinality({y \in 1..Len(b) : b[y] = b[x]}) > (Len(b) \div 100) + 1}}
    ELSE {}

\* j2len of find_longest_match: the length of the longest run of equal
\* elements that ends at a[i], b[j] (0-based) inside the window and is
\* made of elements b2j still holds.
RECURSIVE j2len(_, _, _, _, _, _)
j2len(a, b, alo, blo, i, j) ==
    IF i < alo \/ j < blo THEN 0
    ELSE IF a[i + 1] # b[j + 1] \/ b[j + 1] \in bpopular(b) THEN 0
    ELSE 1 + j2len(a, b, alo, blo, i - 1, j - 1)

\* Fault: the inner loop keeps the first match it meets, not the longest.
RECURSIVE ScanJ_first(_, _, _, _, _, _, _, _)
ScanJ_first(a, b, alo, blo, bhi, i, j, best) ==
    IF j >= bhi THEN best
    ELSE LET k == j2len(a, b, alo, blo, i, j)
             nbest == IF k > 0 /\ best[3] = 0 THEN <<i - k + 1, j - k + 1, k>> ELSE best
         IN  ScanJ_first(a, b, alo, blo, bhi, i, j + 1, nbest)

\* The inner loop of find_longest_match over j in b2j[a[i]].
RECURSIVE ScanJ(_, _, _, _, _, _, _, _)
ScanJ(a, b, alo, blo, bhi, i, j, best) ==
    IF j >= bhi THEN best
    ELSE LET k == j2len(a, b, alo, blo, i, j)
             nbest == IF k > best[3] THEN <<i - k + 1, j - k + 1, k>> ELSE best
         IN  ScanJ(a, b, alo, blo, bhi, i, j + 1, nbest)

\* The outer loop of find_longest_match over i in range(alo, ahi).
RECURSIVE ScanI(_, _, _, _, _, _, _, _)
ScanI(a, b, alo, ahi, blo, bhi, i, best) ==
    IF i >= ahi THEN best
    ELSE ScanI(a, b, alo, ahi, blo, bhi, i + 1,
               ScanJ(a, b, alo, blo, bhi, i, blo, best))

\* The loops that extend the best match by equal elements on both ends.
RECURSIVE ExtendBack(_, _, _, _, _)
ExtendBack(a, b, alo, blo, m) ==
    IF m[1] > alo /\ m[2] > blo /\ a[m[1]] = b[m[2]]
    THEN ExtendBack(a, b, alo, blo, <<m[1] - 1, m[2] - 1, m[3] + 1>>)
    ELSE m

\* Fault: the match is extended forward without comparing the elements.
RECURSIVE ExtendFwd_unchecked(_, _, _, _, _)
ExtendFwd_unchecked(a, b, ahi, bhi, m) ==
    IF m[3] > 0 /\ m[1] + m[3] < ahi /\ m[2] + m[3] < bhi
    THEN ExtendFwd_unchecked(a, b, ahi, bhi, <<m[1], m[2], m[3] + 1>>)
    ELSE m

RECURSIVE ExtendFwd(_, _, _, _, _)
ExtendFwd(a, b, ahi, bhi, m) ==
    IF m[1] + m[3] < ahi /\ m[2] + m[3] < bhi /\ a[m[1] + m[3] + 1] = b[m[2] + m[3] + 1]
    THEN ExtendFwd(a, b, ahi, bhi, <<m[1], m[2], m[3] + 1>>)
    ELSE m

\* SequenceMatcher.find_longest_match(alo, ahi, blo, bhi) -> <<i, j, k>>
find_longest_match(a, b, alo, ahi, blo, bhi) ==
    ExtendFwd(a, b, ahi, bhi,
        ExtendBack(a, b, alo, blo,
            ScanI(a, b, alo, ahi, blo, bhi, alo, <<alo, blo, 0>>)))

\* The matching blocks of a[alo:ahi] and b[blo:bhi], sorted: the longest
\* match, and the blocks of the gaps before and after it when both sides
\* of a gap are non-empty.
RECURSIVE MatchingBlocks(_, _, _, _, _, _)
MatchingBlocks(a, b, alo, ahi, blo, bhi) ==
    LET x == find_longest_match(a, b, alo, ahi, blo, bhi)
        i == x[1]
        j == x[2]
        k == x[3]
    IN  IF k = 0 THEN <<>>
        ELSE (IF alo < i /\ blo < j
              THEN MatchingBlocks(a, b, alo, i, blo, j) ELSE <<>>)
             \o <<x>>
             \o (IF i + k < ahi /\ j + k < bhi
                 THEN MatchingBlocks(a, b, i + k, ahi, j + k, bhi) ELSE <<>>)

\* The loop of get_matching_blocks that collapses adjacent blocks;
\* `cur` is (i1, j1, k1).
RECURSIVE Collapse(_, _)
Collapse(blocks, cur) ==
    IF blocks = <<>> THEN (IF cur[3] # 0 THEN <<cur>> ELSE <<>>)
    ELSE LET x == blocks[1]
         IN  IF cur[1] + cur[3] = x[1] /\ cur[2] + cur[3] = x[2]
             THEN Collapse(Tail(blocks), <<cur[1], cur[2], cur[3] + x[3]>>)
             ELSE (IF cur[3] # 0 THEN <<cur>> ELSE <<>>) \o Collapse(Tail(blocks), x)

\* SequenceMatcher.get_matching_blocks(), the sentinel (la, lb, 0) last.
get_matching_blocks(a, b) ==
    Collapse(MatchingBlocks(a, b, 0, Len(a), 0, Len(b)), <<0, 0, 0>>)
        \o <<<<Len(a), Len(b), 0>>>>

\* The loop of get_opcodes over the matching blocks; (i, j) is where the
\* previous block ended.
RECURSIVE OpcodesFrom(_, _, _)
OpcodesFrom(mb, i, j) ==
    IF mb = <<>> THEN <<>>
    ELSE LET ai == mb[1][1]
             bj == mb[1][2]
             size == mb[1][3]
             tag == IF i < ai /\ j < bj THEN "replace"
                    ELSE IF i < ai THEN "delete"
                    ELSE IF j < bj THEN "insert"
                    ELSE ""
         IN  (IF tag # "" THEN <<<<tag, i, ai, j, bj>>>> ELSE <<>>)
             \o (IF size # 0 THEN <<<<"equal", ai, ai + size, bj, bj + size>>>> ELSE <<>>)
             \o OpcodesFrom(Tail(mb), ai + size, bj + size)

\* Fault: the opcodes stop at the last matching block; what follows it on
\* either side is left out.
get_opcodes_no_sentinel(a, b) ==
    OpcodesFrom(Collapse(MatchingBlocks(a, b, 0, Len(a), 0, Len(b)), <<0, 0, 0>>), 0, 0)

\* list(difflib.SequenceMatcher(None, a, b).get_opcodes())
get_opcodes(a, b) == OpcodesFrom(get_matching_blocks(a, b), 0, 0)

\* ---------------------------------------------------------------- state --
VARIABLES
    left_text,            \* self.left_text: [chars, spacer]
    right_text,           \* self.right_text: [chars, spacer]
    merge_text,           \* self.merge_text: [chars, spacer]
    sync_var,             \* self.sync_var ("Sync View" checkbutton)
    _spacers_applied,     \* self._spacers_applied
    _opcodes,             \* self._opcodes
    blocks,               \* self.blocks: sequence of DiffBlock
    current_block_index,  \* self.current_block_index, None when unset
    report,               \* what the user was last told, <<message, number,
                          \* number>>: self.status_var or a messagebox
    loads,                \* history: how many files were read so far
    source                \* history: the documents as last loaded, per side

vars == <<left_text, right_text, merge_text, sync_var, _spacers_applied, _opcodes,
          blocks, current_block_index, report, loads, source>>

\* DiffBlock(tag, left_range, right_range, left_tag, right_tag); a tag
\* name f"left_block_{index}" is kept as its index, None when absent.
DiffBlock(tag, left_range, right_range, left_tag, right_tag) ==
    [tag |-> tag, left_range |-> left_range, right_range |-> right_range,
     left_tag |-> left_tag, right_tag |-> right_tag]

\* self.update_status(msg), messagebox.showinfo(title, msg) and
\* messagebox.showerror(title, msg)
Message(msg) == <<msg, 0, 0>>

\* ------------------------------------------------------ file contents --
LinesOver(chars) == {<<>>} \cup {<<c>> : c \in chars}

\* The text of a file with the given lines: the lines separated by "\n".
RECURSIVE FileText(_)
FileText(ls) ==
    IF Len(ls) = 1 THEN ls[1] ELSE ls[1] \o <<NL>> \o FileText(Tail(ls))

\* The contents file.read() can return.
FilesOver(chars, maxLines) ==
    {FileText(ls) : ls \in UNION {[1..n -> LinesOver(chars)] : n \in 1..maxLines}}

Files == FilesOver(LineChars, MaxLines)
AlignFiles == FilesOver(AlignLineChars, AlignMaxLines)
NavFiles == FilesOver(LineChars, NavMaxLines)
MergeFiles == FilesOver(LineChars, MergeMaxLines)

\* The text a side shows for a document: widget.get("1.0", tk.END).
WholeText(w) == TkGet(w, 1, TkEnd(w))

\* ------------------------------------------------- spacer handling ----
\* The loop of _remove_spacer_lines over reversed(ranges): the ranges
\* were read before the first deletion.
RECURSIVE DeleteRanges(_, _)
DeleteRanges(w, ranges) ==
    IF ranges = <<>> THEN w
    ELSE LET r == ranges[Len(ranges)]
         IN  DeleteRanges(TkDelete(w, r[1], r[2]), SubSeq(ranges, 1, Len(ranges) - 1))

\* Fault: the spacer tag is removed, the spacer lines stay.
RemoveSpacerLines_tags_only(w) == TagRemoveAll(w)

\* _remove_spacer_lines, for one widget.
RemoveSpacerLines(w) ==
    LET ranges == tag_ranges(w)
    IN  IF ranges = <<>> THEN w ELSE TagRemoveAll(DeleteRanges(w, ranges))

\* _tag_spacer_lines(widget, start_line, count), from offset on.
RECURSIVE _tag_spacer_lines(_, _, _, _)
_tag_spacer_lines(w, start_line, count, offset) ==
    IF offset >= count THEN w
    ELSE LET line_number == start_line + offset
         IN  _tag_spacer_lines(
                 TagAdd(w, LineStart(w, line_number), NextLineStart(w, line_number)),
                 start_line, count, offset + 1)

\* _insert_spacer_lines(widget, line, count)
_insert_spacer_lines(w, line, count) ==
    IF count <= 0 THEN w
    ELSE _tag_spacer_lines(
             TkInsert(w, LineStart(w, line), [k \in 1..count |-> NL]),
             line, count, 0)

\* Fault: the running offsets are never advanced.
RECURSIVE ApplyOpcodes_no_offset(_, _)
ApplyOpcodes_no_offset(ops, st) ==
    IF ops = <<>> THEN st
    ELSE LET op == ops[1]
             left_len == op[3] - op[2]
             right_len == op[5] - op[4]
             next ==
                 IF op[1] = "equal" \/ left_len = right_len THEN st
                 ELSE IF left_len > right_len
                 THEN [st EXCEPT
                         !.right = _insert_spacer_lines(
                                       @, op[5] + st.right_offset + 1, left_len - right_len)]
                 ELSE [st EXCEPT
                         !.left = _insert_spacer_lines(
                                      @, op[3] + st.left_offset + 1, right_len - left_len)]
         IN  ApplyOpcodes_no_offset(Tail(ops), next)

\* Fault: the spacer lines go before the shorter side's range, not after.
RECURSIVE ApplyOpcodes_before_range(_, _)
ApplyOpcodes_before_range(ops, st) ==
    IF ops = <<>> THEN st
    ELSE LET op == ops[1]
             left_len == op[3] - op[2]
             right_len == op[5] - op[4]
             next ==
                 IF op[1] = "equal" \/ left_len = right_len THEN st
                 ELSE IF left_len > right_len
                 THEN [st EXCEPT
                         !.right = _insert_spacer_lines(
                                       @, op[4] + st.right_offset + 1, left_len - right_len),
                         !.right_offset = @ + (left_len - right_len)]
                 ELSE [st EXCEPT
                         !.left = _insert_spacer_lines(
                                      @, op[2] + st.left_offset + 1, right_len - left_len),
                         !.left_offset = @ + (right_len - left_len)]
         IN  ApplyOpcodes_before_range(Tail(ops), next)

\* The loop of _apply_alignment_spacers over self._opcodes; st holds the
\* two widgets and the two running offsets.
RECURSIVE ApplyOpcodes(_, _)
ApplyOpcodes(ops, st) ==
    IF ops = <<>> THEN st
    ELSE LET op == ops[1]
             left_len == op[3] - op[2]
             right_len == op[5] - op[4]
             next ==
                 IF op[1] = "equal" \/ left_len = right_len THEN st
                 ELSE IF left_len > right_len
                 THEN [st EXCEPT
                         !.right = _insert_spacer_lines(
                                       @, op[5] + st.right_offset + 1, left_len - right_len),
                         !.right_offset = @ + (left_len - right_len)]
                 ELSE [st EXCEPT
                         !.left = _insert_spacer_lines(
                                      @, op[3] + st.left_offset + 1, right_len - left_len),
                         !.left_offset = @ + (right_len - left_len)]
         IN  ApplyOpcodes(Tail(ops), next)

\* Fault: spacers are inserted again over the ones already there: neither
\* the flag is looked at nor the old spacer lines are removed.
_apply_alignment_spacers_again(left, right, applied, ops) ==
    IF ops = <<>> THEN [left |-> left, right |-> right, applied |-> TRUE]
    ELSE LET st == ApplyOpcodes(ops, [left |-> left, right |-> right,
                                      left_offset |-> 0, right_offset |-> 0])
         IN  [left |-> st.left, right |-> st.right, applied |-> TRUE]

\* _apply_alignment_spacers: the widgets and the flag it leaves.
_apply_alignment_spacers(left, right, applied, ops) ==
    IF applied THEN [left |-> left, right |-> right, applied |-> TRUE]
    ELSE IF ops = <<>> THEN [left |-> left, right |-> right, applied |-> TRUE]
    ELSE LET st == ApplyOpcodes(ops, [left |-> RemoveSpacerLines(left),
                                      right |-> RemoveSpacerLines(right),
                                      left_offset |-> 0, right_offset |-> 0])
         IN  [left |-> st.left, right |-> st.right, applied |-> TRUE]

\* _is_spacer_line(widget, line)
_is_spacer_line(w, line) ==
    tag_nextrange(w, LineStart(w, line), NextLineStart(w, line))

\* _spacer_line_numbers(widget): the lines the tagged ranges run over.
_spacer_line_numbers(w) ==
    {LineOf(w, q) : q \in w.spacer}

\* ------------------------------------------------------------ handlers --
\* Fault: equal opcodes are not skipped.
RECURSIVE BuildBlocks_keep_equal(_, _)
BuildBlocks_keep_equal(ops, index) ==
    IF index >= Len(ops) THEN <<>>
    ELSE LET op == ops[index + 1]
             left_tag == IF op[3] > op[2] THEN index ELSE None
             right_tag == IF op[5] > op[4] THEN index ELSE None
         IN  <<DiffBlock(op[1], <<op[2], op[3]>>, <<op[4], op[5]>>, left_tag, right_tag)>>
             \o BuildBlocks_keep_equal(ops, index + 1)

\* Fault: each highlight tag is set from the other side's range.
RECURSIVE BuildBlocks_tags_swapped(_, _)
BuildBlocks_tags_swapped(ops, index) ==
    IF index >= Len(ops) THEN <<>>
    ELSE LET op == ops[index + 1]
             left_tag == IF op[5] > op[4] THEN index ELSE None
             right_tag == IF op[3] > op[2] THEN index ELSE None
         IN  (IF op[1] = "equal" THEN <<>>
              ELSE <<DiffBlock(op[1], <<op[2], op[3]>>, <<op[4], op[5]>>,
                               left_tag, right_tag)>>)
             \o BuildBlocks_tags_swapped(ops, index + 1)

\* The loop of compare_texts over enumerate(self._opcodes): one DiffBlock
\* per opcode that is not "equal"; index is the 0-based opcode index.
RECURSIVE BuildBlocks(_, _)
BuildBlocks(ops, index) ==
    IF index >= Len(ops) THEN <<>>
    ELSE LET op == ops[index + 1]
             left_tag == IF op[3] > op[2] THEN index ELSE None
             right_tag == IF op[5] > op[4] THEN index ELSE None
         IN  (IF op[1] = "equal" THEN <<>>
              ELSE <<DiffBlock(op[1], <<op[2], op[3]>>, <<op[4], op[5]>>,
                               left_tag, right_tag)>>)
             \o BuildBlocks(ops, index + 1)

\* The status _apply_current_block leaves.
Viewing(index, count) == <<"Viewing difference", index + 1, count>>

\* Fault: a load that fails drops the opcodes and leaves the spacer
\* lines where they are.
LoadFails_keeps_spacers ==
    /\ _opcodes' = <<>>
    /\ report' = Message("Could not open file")
    /\ UNCHANGED <<left_text, right_text, _spacers_applied, merge_text, sync_var,
                   blocks, current_block_index, loads, source>>

\* _load_file_into_widget(path, widget, side) when open() or read() fails:
\* the spacers and the opcodes are dropped before the file is opened.
LoadFails ==
    /\ left_text' = RemoveSpacerLines(left_text)
    /\ right_text' = RemoveSpacerLines(right_text)
    /\ _spacers_applied' = FALSE
    /\ _opcodes' = <<>>
    /\ report' = Message("Could not open file")
    /\ UNCHANGED <<merge_text, sync_var, blocks, current_block_index, loads, source>>

\* Fault: a load throws the blocks away and keeps the cursor.
LoadReads_keeps_cursor(side, contents) ==
    LET cleared == [left |-> RemoveSpacerLines(left_text),
                    right |-> RemoveSpacerLines(right_text)]
        loaded == TkInsert(TkDelete(cleared[side], 1, TkEnd(cleared[side])), 1, contents)
    IN  /\ loads < MaxLoads
        /\ loads' = loads + 1
        /\ left_text' = IF side = "left" THEN loaded ELSE cleared.left
        /\ right_text' = IF side = "right" THEN loaded ELSE cleared.right
        /\ _spacers_applied' = FALSE
        /\ _opcodes' = <<>>
        /\ blocks' = <<>>
        /\ report' = Message(IF side = "left" THEN "Loaded left file"
                             ELSE "Loaded right file")
        /\ source' = [source EXCEPT ![side] = contents \o <<NL>>]
        /\ UNCHANGED <<merge_text, sync_var, current_block_index>>

\* _load_file_into_widget(path, widget, side) when the file is read.
LoadReads(side, contents) ==
    LET cleared == [left |-> RemoveSpacerLines(left_text),
                    right |-> RemoveSpacerLines(right_text)]
        loaded == TkInsert(TkDelete(cleared[side], 1, TkEnd(cleared[side])), 1, contents)
    IN  /\ loads < MaxLoads
        /\ loads' = loads + 1
        /\ left_text' = IF side = "left" THEN loaded ELSE cleared.left
        /\ right_text' = IF side = "right" THEN loaded ELSE cleared.right
        /\ _spacers_applied' = FALSE
        /\ _opcodes' = <<>>
        /\ report' = Message(IF side = "left" THEN "Loaded left file"
                             ELSE "Loaded right file")
        /\ source' = [source EXCEPT ![side] = contents \o <<NL>>]
        /\ UNCHANGED <<merge_text, sync_var, blocks, current_block_index>>

\* load_left, load_right and _on_drop: the file is read or cannot be.
load(side) ==
    \/ \E contents \in Files : LoadReads(side, contents)
    \/ LoadFails

\* Fault: the cursor is not reset before the blocks are rebuilt.
compare_texts_stale_cursor ==
    LET left == RemoveSpacerLines(left_text)
        right == RemoveSpacerLines(right_text)
        left_lines == splitlines(WholeText(left))
        right_lines == splitlines(WholeText(right))
        ops == get_opcodes(left_lines, right_lines)
        found == BuildBlocks(ops, 0)
        padded == IF sync_var
                  THEN _apply_alignment_spacers(left, right, FALSE, ops)
                  ELSE [left |-> left, right |-> right, applied |-> FALSE]
    IN  /\ _opcodes' = ops
        /\ blocks' = found
        /\ IF found = <<>>
           THEN /\ left_text' = left
                /\ right_text' = right
                /\ _spacers_applied' = FALSE
                /\ current_block_index' = current_block_index
                /\ report' = Message("The documents are identical.")
           ELSE /\ left_text' = padded.left
                /\ right_text' = padded.right
                /\ _spacers_applied' = padded.applied
                /\ current_block_index' = 0
                /\ report' = Viewing(0, Len(found))
        /\ UNCHANGED <<merge_text, sync_var, loads, source>>

\* Fault: the spacer lines are not removed before the widgets are read.
compare_texts_reads_padded ==
    LET left_lines == splitlines(WholeText(left_text))
        right_lines == splitlines(WholeText(right_text))
        ops == get_opcodes(left_lines, right_lines)
        found == BuildBlocks(ops, 0)
        padded == IF sync_var
                  THEN _apply_alignment_spacers(left_text, right_text,
                                                _spacers_applied, ops)
                  ELSE [left |-> left_text, right |-> right_text, applied |-> FALSE]
    IN  /\ _opcodes' = ops
        /\ blocks' = found
        /\ IF found = <<>>
           THEN /\ current_block_index' = None
                /\ report' = Message("The documents are identical.")
                /\ UNCHANGED <<left_text, right_text, _spacers_applied>>
           ELSE /\ left_text' = padded.left
                /\ right_text' = padded.right
                /\ _spacers_applied' = padded.applied
                /\ current_block_index' = 0
                /\ report' = Viewing(0, Len(found))
        /\ UNCHANGED <<merge_text, sync_var, loads, source>>

\* compare_texts
compare_texts ==
    LET left == RemoveSpacerLines(left_text)
        right == RemoveSpacerLines(right_text)
        left_lines == splitlines(WholeText(left))
        right_lines == splitlines(WholeText(right))
        ops == get_opcodes(left_lines, right_lines)
        found == BuildBlocks(ops, 0)
        padded == IF sync_var
                  THEN _apply_alignment_spacers(left, right, FALSE, ops)
                  ELSE [left |-> left, right |-> right, applied |-> FALSE]
    IN  /\ _opcodes' = ops
        /\ blocks' = found
        /\ IF found = <<>>
           THEN /\ left_text' = left
                /\ right_text' = right
                /\ _spacers_applied' = FALSE
                /\ current_block_index' = None
                /\ report' = Message("The documents are identical.")
           ELSE /\ left_text' = padded.left
                /\ right_text' = padded.right
                /\ _spacers_applied' = padded.applied
                /\ current_block_index' = 0
                /\ report' = Viewing(0, Len(found))
        /\ UNCHANGED <<merge_text, sync_var, loads, source>>

\* toggle_sync_view, run by the checkbutton after it flipped sync_var.
toggle_sync_view ==
    LET padded == _apply_alignment_spacers(left_text, right_text,
                                           _spacers_applied, _opcodes)
    IN  /\ sync_var' = ~sync_var
        /\ IF ~sync_var'
           THEN /\ left_text' = RemoveSpacerLines(left_text)
                /\ right_text' = RemoveSpacerLines(right_text)
                /\ _spacers_applied' = FALSE
                /\ report' = Message("Sync view disabled.")
           ELSE /\ left_text' = padded.left
                /\ right_text' = padded.right
                /\ _spacers_applied' = padded.applied
                /\ report' = Message("Sync view enabled. Scrolls are now linked.")
        /\ UNCHANGED <<merge_text, _opcodes, blocks, current_block_index, loads, source>>

\* Fault: the cursor is moved without the modulo.
Navigate_no_wrap(step) ==
    IF blocks = <<>>
    THEN UNCHANGED <<left_text, right_text, merge_text, sync_var, _spacers_applied,
                    _opcodes, blocks, current_block_index, report, loads, source>>
    ELSE LET index == IF current_block_index = None THEN 0
                      ELSE current_block_index + step
         IN  /\ current_block_index' = index
             /\ report' = Viewing(index, Len(blocks))
             /\ UNCHANGED <<left_text, right_text, merge_text, sync_var,
                            _spacers_applied, _opcodes, blocks, loads, source>>

\* Fault: the cursor is moved without asking whether there are blocks.
Navigate_unguarded(step) ==
    LET index == IF current_block_index = None THEN 0
                 ELSE (current_block_index + step) % Len(blocks)
    IN  /\ current_block_index' = index
        /\ report' = Viewing(index, Len(blocks))
        /\ UNCHANGED <<left_text, right_text, merge_text, sync_var,
                       _spacers_applied, _opcodes, blocks, loads, source>>

\* Fault: a move of the cursor also takes the spacer lines out of both
\* sides.
Navigate_unpads(step) ==
    IF blocks = <<>>
    THEN UNCHANGED <<left_text, right_text, merge_text, sync_var, _spacers_applied,
                    _opcodes, blocks, current_block_index, report, loads, source>>
    ELSE LET index == IF current_block_index = None THEN 0
                      ELSE (current_block_index + step) % Len(blocks)
         IN  /\ current_block_index' = index
             /\ report' = Viewing(index, Len(blocks))
             /\ left_text' = RemoveSpacerLines(left_text)
             /\ right_text' = RemoveSpacerLines(right_text)
             /\ _spacers_applied' = FALSE
             /\ UNCHANGED <<merge_text, sync_var, _opcodes, blocks, loads, source>>

\* prev_block (step = -1) and next_block (step = 1)
Navigate(step) ==
    IF blocks = <<>>
    THEN UNCHANGED <<left_text, right_text, merge_text, sync_var, _spacers_applied,
                    _opcodes, blocks, current_block_index, report, loads, source>>
    ELSE LET index == IF current_block_index = None THEN 0
                      ELSE (current_block_index + step) % Len(blocks)
         IN  /\ current_block_index' = index
             /\ report' = Viewing(index, Len(blocks))
             /\ UNCHANGED <<left_text, right_text, merge_text, sync_var,
                            _spacers_applied, _opcodes, blocks, loads, source>>

prev_block == Navigate(-1)

next_block == Navigate(1)

\* The loop of _extract_range over range(start + 1, end + 1).
RECURSIVE ExtractLines(_, _, _)
ExtractLines(w, line, end) ==
    IF line > end THEN <<>>
    ELSE (IF _is_spacer_line(w, line) THEN <<>>
          ELSE <<TkGet(w, LineStart(w, line), NextLineStart(w, line))>>)
         \o ExtractLines(w, line + 1, end)

\* _extract_range(widget, text_range)
_extract_range(w, text_range) ==
    IF text_range[1] = text_range[2] THEN <<>>
    ELSE join(ExtractLines(w, text_range[1] + 1, text_range[2]))

\* Fault: "left" picks the right side's text and "right" the left side's.
Chosen_swapped(prefer, block) ==
    LET left == _extract_range(left_text, block.left_range)
        right == _extract_range(right_text, block.right_range)
    IN  IF prefer = "left" THEN right
        ELSE IF prefer = "right" THEN left
        ELSE left \o right

\* The text _merge_choice picks for the block.
Chosen(prefer, block) ==
    LET left == _extract_range(left_text, block.left_range)
        right == _extract_range(right_text, block.right_range)
    IN  IF prefer = "left" THEN left
        ELSE IF prefer = "right" THEN right
        ELSE left \o right

\* Where _merge_choice inserts: "1.0" when the merged document is blank,
\* tk.END otherwise.
InsertPoint(w) == IF strip(WholeText(w)) = <<>> THEN 1 ELSE TkEnd(w)

\* Fault: a merge that adds text moves the cursor on to the next block.
_merge_choice_advances(prefer) ==
    IF current_block_index = None
    THEN /\ report' = Message("No difference selected.")
         /\ UNCHANGED <<left_text, right_text, merge_text, sync_var, _spacers_applied,
                        _opcodes, blocks, current_block_index, loads, source>>
    ELSE LET chosen == Chosen(prefer, blocks[current_block_index + 1])
         IN  IF chosen = <<>>
             THEN /\ report' = Message("Nothing to merge for this choice.")
                  /\ UNCHANGED <<left_text, right_text, merge_text, sync_var,
                                 _spacers_applied, _opcodes, blocks,
                                 current_block_index, loads, source>>
             ELSE /\ Len(merge_text.chars) <= MaxMerge
                  /\ merge_text' = TkInsert(merge_text, InsertPoint(merge_text), chosen)
                  /\ current_block_index' = (current_block_index + 1) % Len(blocks)
                  /\ report' = Message("Appended selection to the merged document.")
                  /\ UNCHANGED <<left_text, right_text, sync_var, _spacers_applied,
                                 _opcodes, blocks, loads, source>>

\* _merge_choice(prefer)
_merge_choice(prefer) ==
    IF current_block_index = None
    THEN /\ report' = Message("No difference selected.")
         /\ UNCHANGED <<left_text, right_text, merge_text, sync_var, _spacers_applied,
                        _opcodes, blocks, current_block_index, loads, source>>
    ELSE LET chosen == Chosen(prefer, blocks[current_block_index + 1])
         IN  IF chosen = <<>>
             THEN /\ report' = Message("Nothing to merge for this choice.")
                  /\ UNCHANGED <<left_text, right_text, merge_text, sync_var,
                                 _spacers_applied, _opcodes, blocks,
                                 current_block_index, loads, source>>
             ELSE /\ Len(merge_text.chars) <= MaxMerge
                  /\ merge_text' = TkInsert(merge_text, InsertPoint(merge_text), chosen)
                  /\ report' = Message("Appended selection to the merged document.")
                  /\ UNCHANGED <<left_text, right_text, sync_var, _spacers_applied,
                                 _opcodes, blocks, current_block_index, loads, source>>

merge_left == _merge_choice("left")

merge_right == _merge_choice("right")

merge_both == _merge_choice("both")

\* clear_merge
clear_merge ==
    /\ merge_text' = TkDelete(merge_text, 1, TkEnd(merge_text))
    /\ report' = Message("Cleared merged document.")
    /\ UNCHANGED <<left_text, right_text, sync_var, _spacers_applied, _opcodes,
                   blocks, current_block_index, loads, source>>

\* ------------------------------------------------------ specifications --
\* DiffMergeApp.__init__ and _build_ui
Init ==
    /\ left_text = NewText
    /\ right_text = NewText
    /\ merge_text = NewText
    /\ sync_var = FALSE
    /\ _spacers_applied = FALSE
    /\ _opcodes = <<>>
    /\ blocks = <<>>
    /\ current_block_index = None
    /\ report = Message("Load two files or paste text, then click Compare.")
    /\ loads = 0
    /\ source = [left |-> <<NL>>, right |-> <<NL>>]

Next ==
    \/ load("left")
    \/ load("right")
    \/ compare_texts
    \/ toggle_sync_view
    \/ prev_block
    \/ next_block
    \/ merge_left
    \/ merge_right
    \/ merge_both
    \/ clear_merge

Spec == Init /\ [][Next]_vars

\* The application without its merge buttons: the merged document is
\* written by them alone and read by no other handler.
NextView ==
    \/ load("left")
    \/ load("right")
    \/ compare_texts
    \/ toggle_sync_view
    \/ prev_block
    \/ next_block

SpecView == Init /\ [][NextView]_vars

\* The application after a left and a right document were loaded, with
\* the documents the aligner specification draws.
InitCompare ==
    \E left \in AlignFiles, right \in AlignFiles :
        /\ left_text = TkInsert(NewText, 1, left)
        /\ right_text = TkInsert(NewText, 1, right)
        /\ merge_text = NewText
        /\ sync_var = FALSE
        /\ _spacers_applied = FALSE
        /\ _opcodes = <<>>
        /\ blocks = <<>>
        /\ current_block_index = None
        /\ report = Message("Loaded right file")
        /\ loads = 2
        /\ source = [left |-> left \o <<NL>>, right |-> right \o <<NL>>]

\* The handlers that compare, align and navigate loaded documents.
NextCompare ==
    \/ compare_texts
    \/ toggle_sync_view
    \/ prev_block
    \/ next_block

SpecCompare == InitCompare /\ [][NextCompare]_vars

\* The application after a left and a right document were loaded, with
\* the documents the navigation specification draws: long enough for
\* three blocks.
InitNav ==
    \E left \in NavFiles, right \in NavFiles :
        /\ left_text = TkInsert(NewText, 1, left)
        /\ right_text = TkInsert(NewText, 1, right)
        /\ merge_text = NewText
        /\ sync_var = FALSE
        /\ _spacers_applied = FALSE
        /\ _opcodes = <<>>
        /\ blocks = <<>>
        /\ current_block_index = None
        /\ report = Message("Loaded right file")
        /\ loads = 2
        /\ source = [left |-> left \o <<NL>>, right |-> right \o <<NL>>]

\* The handlers that compare loaded documents and walk their blocks.
NextNav ==
    \/ compare_texts
    \/ prev_block
    \/ next_block

SpecNav == InitNav /\ [][NextNav]_vars

\* The application after a left and a right document were loaded, with
\* the documents the merge specification draws.
InitMerge ==
    \E left \in MergeFiles, right \in MergeFiles :
        /\ left_text = TkInsert(NewText, 1, left)
        /\ right_text = TkInsert(NewText, 1, right)
        /\ merge_text = NewText
        /\ sync_var = FALSE
        /\ _spacers_applied = FALSE
        /\ _opcodes = <<>>
        /\ blocks = <<>>
        /\ current_block_index = None
        /\ report = Message("Loaded right file")
        /\ loads = 2
        /\ source = [left |-> left \o <<NL>>, right |-> right \o <<NL>>]

\* The handlers that compare, align, walk and merge loaded documents.
NextMerge ==
    \/ compare_texts
    \/ toggle_sync_view
    \/ prev_block
    \/ next_block
    \/ merge_left
    \/ merge_right
    \/ merge_both
    \/ clear_merge

SpecMerge == InitMerge /\ [][NextMerge]_vars

\* ------------------------------------------------------------- claims --
\* L and R of a comparison: the lines of the documents as loaded.
LeftLines == splitlines(source.left)
RightLines == splitlines(source.right)

\* A comparison of the documents as loaded is stored.
Compared == _opcodes # <<>>

\* The opcodes leave no gap and no overlap over a[0:len(a)], b[0:len(b)].
Covers(ops, a, b) ==
    /\ ops # <<>>
    /\ ops[1][2] = 0
    /\ ops[1][4] = 0
    /\ \A k \in 1..(Len(ops) - 1) :
           ops[k + 1][2] = ops[k][3] /\ ops[k + 1][4] = ops[k][5]
    /\ ops[Len(ops)][3] = Len(a)
    /\ ops[Len(ops)][5] = Len(b)
    /\ \A k \in 1..Len(ops) :
           /\ ops[k][2] <= ops[k][3]
           /\ ops[k][4] <= ops[k][5]
           /\ (ops[k][2] < ops[k][3] \/ ops[k][4] < ops[k][5])

\* C7: every compare leaves opcodes that cover [0, len(L)) and [0, len(R))
\* exactly: the first starts at (0, 0), each starts where the one before
\* ended, the last ends at (len(L), len(R)), and none is empty on both sides.
C7_OpcodesCover == [][compare_texts => Covers(_opcodes', LeftLines, RightLines)]_vars

\* A comparison whose opcodes hold an insert, an equal and a delete.
C7_Witness ==
    /\ Len(_opcodes) >= 3
    /\ \E k \in 1..Len(_opcodes) : _opcodes[k][1] = "insert"
    /\ \E k \in 1..Len(_opcodes) : _opcodes[k][1] = "delete"
    /\ \E k \in 1..Len(_opcodes) : _opcodes[k][1] = "equal"

\* Number of lines the equal opcodes cover.
RECURSIVE EqualTotal(_)
EqualTotal(ops) ==
    IF ops = <<>> THEN 0
    ELSE (IF ops[1][1] = "equal" THEN ops[1][3] - ops[1][2] ELSE 0)
         + EqualTotal(Tail(ops))

\* Length of a longest common subsequence of a and b.
RECURSIVE LCSLen(_, _)
LCSLen(a, b) ==
    IF a = <<>> \/ b = <<>> THEN 0
    ELSE IF a[1] = b[1] THEN 1 + LCSLen(Tail(a), Tail(b))
    ELSE Max(LCSLen(Tail(a), b), LCSLen(a, Tail(b)))

\* Length of the longest run of consecutive lines a and b share.
LongestRun(a, b) ==
    LET runs == {n \in 0..Min(Len(a), Len(b)) :
                    \E i \in 0..(Len(a) - n), j \in 0..(Len(b) - n) :
                        \A k \in 1..n : a[i + k] = b[j + k]}
    IN  CHOOSE n \in runs : \A m \in runs : m <= n

\* C8 as stated: the equal opcodes cover as many lines as a longest common
\* subsequence of L and R has, so the edit script is minimal.
C8_Minimal == Compared => EqualTotal(_opcodes) = LCSLen(LeftLines, RightLines)

\* C8 as the code has it: the equal opcodes cover at most as many lines as
\* a longest common subsequence has and, while R is too short for
\* autojunk, at least as many as the longest run of consecutive lines the
\* two sides share.
C8_Bounded ==
    Compared =>
        /\ EqualTotal(_opcodes) <= LCSLen(LeftLines, RightLines)
        /\ Len(RightLines) < AutojunkLen =>
               EqualTotal(_opcodes) >= LongestRun(LeftLines, RightLines)

\* A comparison whose equal opcodes cover fewer lines than a longest
\* common subsequence has.
C8_Witness ==
    /\ Compared
    /\ EqualTotal(_opcodes) > 0
    /\ EqualTotal(_opcodes) < LCSLen(LeftLines, RightLines)

\* C9: an equal opcode has ranges of one length that hold the same lines,
\* and the equal opcodes follow each other on both sides, so that their
\* slices in opcode order are a common subsequence of L and R.
C9_EqualMatches ==
    \A k \in 1..Len(_opcodes) :
        _opcodes[k][1] = "equal" =>
            /\ _opcodes[k][3] - _opcodes[k][2] = _opcodes[k][5] - _opcodes[k][4]
            /\ _opcodes[k][2] >= 0 /\ _opcodes[k][3] <= Len(LeftLines)
            /\ _opcodes[k][4] >= 0 /\ _opcodes[k][5] <= Len(RightLines)
            /\ \A o \in 1..(_opcodes[k][3] - _opcodes[k][2]) :
                   LeftLines[_opcodes[k][2] + o] = RightLines[_opcodes[k][4] + o]
            /\ \A m \in (k + 1)..Len(_opcodes) :
                   _opcodes[m][1] = "equal" =>
                       /\ _opcodes[k][3] <= _opcodes[m][2]
                       /\ _opcodes[k][5] <= _opcodes[m][4]

\* A comparison with two equal opcodes, one of them at different places
\* of the two sides.
C9_Witness ==
    \E k \in 1..Len(_opcodes), m \in 1..Len(_opcodes) :
        /\ k < m
        /\ _opcodes[k][1] = "equal"
        /\ _opcodes[m][1] = "equal"
        /\ _opcodes[m][2] # _opcodes[m][4]

\* The text of lines[range[0]:range[1]], every line with its line break.
RECURSIVE SourceText(_, _)
SourceText(lines, text_range) ==
    IF text_range[1] >= text_range[2] \/ text_range[1] >= Len(lines) THEN <<>>
    ELSE lines[text_range[1] + 1] \o <<NL>>
         \o SourceText(lines, <<text_range[1] + 1, text_range[2]>>)

\* What a merge of the block is to append for a choice: the block's lines
\* of L, of R, or of L and then of R.
SourceChoice(prefer, block) ==
    LET left == SourceText(LeftLines, block.left_range)
        right == SourceText(RightLines, block.right_range)
    IN  IF prefer = "left" THEN left
        ELSE IF prefer = "right" THEN right
        ELSE left \o right

\* The merged document after `fragment` was added to it where the code
\* adds text; unchanged for an empty fragment.
Merged(fragment) ==
    IF fragment = <<>> THEN merge_text
    ELSE TkInsert(merge_text, InsertPoint(merge_text), fragment)

\* C1: with a current block of the stored comparison, padded or not, a
\* merge adds exactly the block's lines of L (left), of R (right), or of L
\* followed by those of R (both) to the merged document.
C1_MergeSourceLines ==
    [][\A prefer \in {"left", "right", "both"} :
           _merge_choice(prefer) /\ Compared /\ current_block_index # None =>
               merge_text' = Merged(SourceChoice(prefer, blocks[current_block_index + 1]))]_vars

\* The merged document without Tk's final newline.
Buffer(w) == SubSeq(w.chars, 1, Len(w.chars) - 1)

\* C4: a merge that adds a fragment leaves the merged document as it was,
\* blank lines included, followed by the fragment; clear_merge leaves it
\* empty.
C4_AppendOnly ==
    [][/\ \A prefer \in {"left", "right", "both"} :
              _merge_choice(prefer) /\ merge_text' # merge_text =>
                  Buffer(merge_text') =
                      Buffer(merge_text) \o Chosen(prefer, blocks[current_block_index + 1])
       /\ clear_merge => Buffer(merge_text') = <<>>]_vars

\* C5: a file read into a side leaves no block, no spacer and no cursor.
C5_LoadInvalidates ==
    [][(\E side \in {"left", "right"} : \E contents \in Files : LoadReads(side, contents)) =>
           /\ blocks' = <<>>
           /\ left_text'.spacer = {}
           /\ right_text'.spacer = {}
           /\ current_block_index' = None]_vars

\* C6: a load that fails leaves the sides with their spacers, the opcodes,
\* the blocks and the cursor as they were.
C6_FailedLoadKeeps ==
    [][LoadFails =>
           UNCHANGED <<left_text, right_text, _opcodes, blocks, current_block_index>>]_vars

\* The widget of a document as loaded, with no spacer line.
Unpadded(side) == [chars |-> source[side], spacer |-> {}]

\* C2: with alignment disabled (again), each side holds exactly the lines
\* it held before alignment was enabled, and no character is tagged as a
\* spacer.
C2_RoundTrip ==
    ~sync_var => left_text = Unpadded("left") /\ right_text = Unpadded("right")

\* Alignment was just disabled for a comparison that pads a side.
C2_Witness ==
    /\ report = Message("Sync view disabled.")
    /\ \E k \in 1..Len(_opcodes) :
           _opcodes[k][3] - _opcodes[k][2] # _opcodes[k][5] - _opcodes[k][4]

\* Visual lines the region of an opcode takes: max(Lc, Rc).
Longer(op) == Max(op[3] - op[2], op[5] - op[4])

\* The visual line (1-based) the region of opcode k starts at.
RECURSIVE VisualStart(_, _)
VisualStart(ops, k) ==
    IF k = 1 THEN 1 ELSE VisualStart(ops, k - 1) + Longer(ops[k - 1])

\* The text of a widget line without its newline.
LineText(w, line) ==
    TkGet(w, LineStart(w, line), NextLineStart(w, line) - 1)

\* A padded side shows the region of every opcode from its visual start
\* on: first the lines of the side's range, then spacer lines up to
\* max(Lc, Rc); `lo` is where the opcode keeps the range of the side.
InStep(w, lines, ops, lo) ==
    /\ NumLines(w) = VisualStart(ops, Len(ops) + 1) - 1
    /\ \A k \in 1..Len(ops) :
           \A o \in 0..(Longer(ops[k]) - 1) :
               LET line == VisualStart(ops, k) + o
               IN  IF o < ops[k][lo + 1] - ops[k][lo]
                   THEN /\ line \notin _spacer_line_numbers(w)
                        /\ LineText(w, line) = lines[ops[k][lo] + o + 1]
                   ELSE /\ line \in _spacer_line_numbers(w)
                        /\ LineText(w, line) = <<>>

\* C3: with the padding of a comparison applied, the region of every
\* opcode starts at the same visual line on both sides, takes
\* max(Lc, Rc) visual lines on both, and the sides have the same number
\* of visual lines.
C3_Lockstep ==
    sync_var /\ Compared =>
        /\ InStep(left_text, LeftLines, _opcodes, 2)
        /\ InStep(right_text, RightLines, _opcodes, 4)
        /\ NumLines(left_text) = NumLines(right_text)

\* A padded comparison with spacer lines on both sides.
C3_Witness ==
    /\ sync_var
    /\ Compared
    /\ left_text.spacer # {}
    /\ right_text.spacer # {}

\* C10: a compare of identical documents, empty ones included, leaves no
\* block, reports that the documents are identical and leaves no cursor.
C10_Identical ==
    [][compare_texts /\ LeftLines = RightLines =>
           /\ blocks' = <<>>
           /\ current_block_index' = None
           /\ report' = Message("The documents are identical.")]_vars

\* Identical documents of two lines were loaded and compared.
C10_Witness ==
    /\ report = Message("The documents are identical.")
    /\ loads >= 2
    /\ LeftLines = RightLines
    /\ Len(LeftLines) >= 2

\* The Line Sequence of a side: the lines of the document as loaded, none
\* for a side that holds no text.
DocLines(side) ==
    IF source[side] = <<NL>> THEN <<>> ELSE splitlines(source[side])

\* The two sides have no line in common.
Disjoint(a, b) == \A i \in 1..Len(a), j \in 1..Len(b) : a[i] # b[j]

\* The one block that spans both line sequences entirely.
WholeBlock(a, b) ==
    IF a = <<>> THEN DiffBlock("insert", <<0, 0>>, <<0, Len(b)>>, None, 0)
    ELSE IF b = <<>> THEN DiffBlock("delete", <<0, Len(a)>>, <<0, 0>>, 0, None)
    ELSE DiffBlock("replace", <<0, Len(a)>>, <<0, Len(b)>>, 0, 0)

\* C11: a compare of sides that share no line leaves exactly one block
\* that spans both entirely: a replace when both hold lines, an insert of
\* all of R when the left side is empty, a delete of all of L when the
\* right side is empty.
C11_DisjointOneBlock ==
    [][/\ compare_texts
       /\ Disjoint(DocLines("left"), DocLines("right"))
       /\ DocLines("left") # <<>> \/ DocLines("right") # <<>>
       => blocks' = <<WholeBlock(DocLines("left"), DocLines("right"))>>]_vars

\* Where a step of the navigator leaves the cursor: nowhere new without
\* blocks, on block 0 from no cursor, else one block on (forward) or back,
\* from the last block on to block 0 and from block 0 back to the last.
Moved(forward) ==
    IF blocks = <<>> THEN UNCHANGED vars
    ELSE /\ blocks' = blocks
         /\ current_block_index' =
                IF current_block_index = None THEN 0
                ELSE IF forward
                THEN (IF current_block_index = Len(blocks) - 1 THEN 0
                      ELSE current_block_index + 1)
                ELSE (IF current_block_index = 0 THEN Len(blocks) - 1
                      ELSE current_block_index - 1)

\* C12: next moves the cursor to block (i + 1) mod blockCount and prev to
\* block (i - 1) mod blockCount; from no cursor both move to block 0 when
\* blocks exist and do nothing otherwise.
C12_Navigator ==
    [][/\ next_block => Moved(TRUE)
       /\ prev_block => Moved(FALSE)]_vars

\* The cursor is on the last of three blocks.
C12_Witness ==
    /\ Len(blocks) = 3
    /\ current_block_index = 2
    /\ report = Viewing(2, 3)

\* C13: every compare leaves the cursor on block 0 when it found a block
\* and leaves no cursor when it found none, whatever the cursor was.
C13_CursorAfterCompare ==
    [][compare_texts =>
           current_block_index' = IF blocks' = <<>> THEN None ELSE 0]_vars

\* Documents loaded one after the other were compared and differ in two
\* blocks; the cursor is on the first.
C13_Witness ==
    /\ Compared
    /\ loads >= 2
    /\ Len(blocks) = 2
    /\ current_block_index = 0
    /\ report = Viewing(0, 2)

\* The lines line..end of a widget that are no spacer lines: lines with
\* no character tagged as a spacer.
RECURSIVE RealLines(_, _, _)
RealLines(w, line, end) ==
    IF line > end THEN <<>>
    ELSE (IF line \in _spacer_line_numbers(w) THEN <<>>
          ELSE <<TkGet(w, LineStart(w, line), NextLineStart(w, line))>>)
         \o RealLines(w, line + 1, end)

\* The text of a block's range on a side without any spacer line.
RealRange(w, text_range) ==
    IF text_range[1] = text_range[2] THEN <<>>
    ELSE join(RealLines(w, text_range[1] + 1, text_range[2]))

\* What a merge of the block adds when no spacer line is copied.
RealChoice(prefer, block) ==
    LET left == RealRange(left_text, block.left_range)
        right == RealRange(right_text, block.right_range)
    IN  IF prefer = "left" THEN left
        ELSE IF prefer = "right" THEN right
        ELSE left \o right

\* C14: a merge copies no spacer line into the merged document: what it
\* adds is the text of the lines it reads that carry no spacer tag.
C14_NoSpacerMerged ==
    [][\A prefer \in {"left", "right", "both"} :
           _merge_choice(prefer) /\ current_block_index # None =>
               merge_text' = Merged(RealChoice(prefer, blocks[current_block_index + 1]))]_vars

\* The number of spacer lines the opcodes ask for on a side: for every
\* opcode, what the side's range is shorter than the other side's.
RECURSIVE Padding(_, _)
Padding(ops, side) ==
    IF ops = <<>> THEN 0
    ELSE LET left_len == ops[1][3] - ops[1][2]
             right_len == ops[1][5] - ops[1][4]
         IN  (IF side = "left" THEN Max(0, right_len - left_len)
              ELSE Max(0, left_len - right_len))
             + Padding(Tail(ops), side)

\* C15: applying the spacers where they are applied changes neither side
\* nor a spacer tag, removing them where there are none changes nothing,
\* and whatever was compared and toggled each side holds the spacer
\* lines of the opcodes once when they are applied and none otherwise.
C15_Idempotent ==
    /\ _spacers_applied =>
           _apply_alignment_spacers(left_text, right_text, _spacers_applied, _opcodes)
               = [left |-> left_text, right |-> right_text, applied |-> TRUE]
    /\ left_text.spacer = {} => RemoveSpacerLines(left_text) = left_text
    /\ right_text.spacer = {} => RemoveSpacerLines(right_text) = right_text
    /\ Cardinality(_spacer_line_numbers(left_text))
           = IF _spacers_applied THEN Padding(_opcodes, "left") ELSE 0
    /\ Cardinality(_spacer_line_numbers(right_text))
           = IF _spacers_applied THEN Padding(_opcodes, "right") ELSE 0

\* Spacers are applied and both sides hold some.
C15_Witness ==
    /\ _spacers_applied
    /\ left_text.spacer # {}
    /\ right_text.spacer # {}

\* The visual lines the spacer lines of a side take: for every opcode
\* whose range on the side is the shorter one, the |Lc - Rc| lines after
\* the end of that range moved by `offset`, the spacer lines put on the
\* side before.
RECURSIVE SpacerRuns(_, _, _)
SpacerRuns(ops, side, offset) ==
    IF ops = <<>> THEN {}
    ELSE LET left_len == ops[1][3] - ops[1][2]
             right_len == ops[1][5] - ops[1][4]
             end == IF side = "left" THEN ops[1][3] ELSE ops[1][5]
             count == IF ops[1][1] = "equal" THEN 0
                      ELSE IF side = "left" THEN Max(0, right_len - left_len)
                      ELSE Max(0, left_len - right_len)
         IN  (end + offset + 1)..(end + offset + count)
             \cup SpacerRuns(Tail(ops), side, offset + count)

\* C16: with the padding applied, the spacer lines of a side are, for
\* every non-equal opcode whose range on the side is the shorter one,
\* the |Lc - Rc| lines right after that range, and no others; the other
\* lines of the side are its source lines in order.
C16_SpacerPlacement ==
    _spacers_applied /\ Compared =>
        /\ _spacer_line_numbers(left_text) = SpacerRuns(_opcodes, "left", 0)
        /\ _spacer_line_numbers(right_text) = SpacerRuns(_opcodes, "right", 0)
        /\ join(RealLines(left_text, 1, NumLines(left_text))) = source.left
        /\ join(RealLines(right_text, 1, NumLines(right_text))) = source.right

\* L = [a, b] and R = [a] are padded: one delete block with the left
\* range (1, 2) and the right range (1, 1), and one spacer line on the
\* right after visual line 1.
C16_Witness ==
    /\ _spacers_applied
    /\ LeftLines = <<<<"a">>, <<"b">>>>
    /\ RightLines = <<<<"a">>>>
    /\ Len(blocks) = 1
    /\ blocks[1].tag = "delete"
    /\ blocks[1].left_range = <<1, 2>>
    /\ blocks[1].right_range = <<1, 1>>
    /\ _spacer_line_numbers(right_text) = {2}
    /\ _spacer_line_numbers(left_text) = {}

\* The range of the current block on the side a merge asks for.
RequestedRange(prefer) ==
    IF prefer = "left" THEN blocks[current_block_index + 1].left_range
    ELSE blocks[current_block_index + 1].right_range

\* C17: a merge of a side on which the current block's range is empty
\* reports that there is nothing to merge and leaves the merged
\* document, the cursor, the blocks and both sides as they were.
C17_EmptySelection ==
    [][\A prefer \in {"left", "right"} :
           /\ _merge_choice(prefer)
           /\ current_block_index # None
           /\ RequestedRange(prefer)[1] = RequestedRange(prefer)[2]
           => /\ report' = Message("Nothing to merge for this choice.")
              /\ UNCHANGED <<merge_text, current_block_index, blocks,
                             left_text, right_text>>]_vars

\* Use Left was pressed on an insert block of unpadded documents: the
\* merged document is still empty.
C17_Witness ==
    /\ report = Message("Nothing to merge for this choice.")
    /\ current_block_index # None
    /\ ~_spacers_applied
    /\ blocks[current_block_index + 1].tag = "insert"
    /\ merge_text = NewText

RECURSIVE NonEqual(_, _)
NonEqual(ops, k) ==
    IF k > Len(ops) THEN <<>>
    ELSE (IF ops[k][1] = "equal" THEN <<>> ELSE <<k>>) \o NonEqual(ops, k + 1)

\* Block `b` is the block of opcode `op`: same kind and ranges, a
\* highlight tag on exactly the sides whose range is not empty, and the
\* kind that goes with the ranges that are not empty.
BlockOf(b, op) ==
    LET left == op[3] > op[2]
        right == op[5] > op[4]
    IN  /\ b.tag = op[1]
        /\ b.left_range = <<op[2], op[3]>>
        /\ b.right_range = <<op[4], op[5]>>
        /\ b.left_tag # None <=> left
        /\ b.right_tag # None <=> right
        /\ b.tag = "delete" <=> left /\ ~right
        /\ b.tag = "insert" <=> ~left /\ right
        /\ b.tag = "replace" <=> left /\ right

\* C19: after a compare the blocks are the opcodes that are not "equal",
\* in opcode order, each with the opcode's kind and ranges, highlighted
\* on the sides whose range is not empty, and delete, insert or replace
\* as only the left, only the right or both ranges are not empty.
C19_BlockExtraction ==
    Compared =>
        LET at == NonEqual(_opcodes, 1)
        IN  /\ Len(blocks) = Len(at)
            /\ \A n \in 1..Len(at) : BlockOf(blocks[n], _opcodes[at[n]])

\* A compare found a delete block and an insert block around an equal
\* region.
C19_Witness ==
    /\ Compared
    /\ Len(_opcodes) = 3
    /\ Len(blocks) = 2
    /\ blocks[1].tag = "delete"
    /\ blocks[1].right_tag = None
    /\ blocks[2].tag = "insert"
    /\ blocks[2].left_tag = None

\* C20: every compare yields the opcodes of the two documents' source
\* lines and the blocks of these opcodes; a later compare of the same
\* documents yields the same opcodes and blocks again, whatever was
\* toggled, visited or merged since and whatever spacer lines the
\* widgets hold.
C20_CompareOnSources ==
    [][compare_texts =>
           /\ _opcodes' = get_opcodes(LeftLines, RightLines)
           /\ blocks' = BuildBlocks(_opcodes', 0)
           /\ Compared => _opcodes' = _opcodes /\ blocks' = blocks]_vars

\* Documents with spacer lines on both sides and a merged document that
\* is not empty were compared once more.
C20_Witness ==
    /\ Compared
    /\ _spacers_applied
    /\ left_text.spacer # {}
    /\ right_text.spacer # {}
    /\ merge_text # NewText
    /\ current_block_index = 0
    /\ report = Viewing(0, Len(blocks))

\* C21: Previous and Next leave the blocks, the stored opcodes, the text
\* and the spacer tags of both sides and the merged document as they
\* are: they move the cursor and say where it is, nothing else.
C21_NavigationFrame ==
    [][prev_block \/ next_block =>
           UNCHANGED <<blocks, _opcodes, left_text, right_text, merge_text,
                       sync_var, _spacers_applied>>]_vars

\* The cursor was moved to the second block of padded documents while
\* the merged document held text.
C21_Witness ==
    /\ Len(blocks) = 2
    /\ current_block_index = 1
    /\ report = Viewing(1, 2)
    /\ left_text.spacer # {} \/ right_text.spacer # {}
    /\ merge_text # NewText

\* C22: whatever was loaded, compared, toggled, visited, merged or
\* cleared, there is no cursor exactly when there is no block, a cursor
\* is the index of one of the blocks, and a position told to the user
\* lies between 1 and the number of blocks.
C22_CursorInRange ==
    /\ current_block_index = None <=> blocks = <<>>
    /\ current_block_index # None =>
           0 <= current_block_index /\ current_block_index < Len(blocks)
    /\ report[1] = "Viewing difference" => 1 <= report[2] /\ report[2] <= report[3]

\* The cursor is on the last of two blocks, a document was loaded after
\* the compare and the merged document holds text.
C22_Witness ==
    /\ Len(blocks) = 2
    /\ current_block_index = 1
    /\ ~Compared
    /\ merge_text # NewText

\* C23: a side holds spacer lines only while Sync View is on, opcodes
\* are stored and the spacers are flagged as applied; while they are not
\* flagged as applied neither side holds a spacer line.
C23_SpacersOnlyApplied ==
    /\ left_text.spacer # {} \/ right_text.spacer # {} =>
           sync_var /\ _opcodes # <<>> /\ _spacers_applied
    /\ ~_spacers_applied => left_text.spacer = {} /\ right_text.spacer = {}

\* Two loaded documents were compared and only the right side is padded.
C23_Witness ==
    /\ loads = 2
    /\ sync_var
    /\ _spacers_applied
    /\ Compared
    /\ right_text.spacer # {}
    /\ left_text.spacer = {}

\* The text a merge picks for the current block after the step.
ChosenAfter(prefer) ==
    LET block == blocks'[current_block_index' + 1]
        left == _extract_range(left_text', block.left_range)
        right == _extract_range(right_text', block.right_range)
    IN  IF prefer = "left" THEN left
        ELSE IF prefer = "right" THEN right
        ELSE left \o right

\* C24: the merges and Clear leave the cursor, the blocks, the stored
\* opcodes and the text and spacer tags of both sides as they are; after
\* a merge that added a fragment the same merge picks the same fragment
\* again, and adding it once more leaves the merged document followed
\* by that fragment.
C24_MergeFrame ==
    [][/\ merge_left \/ merge_right \/ merge_both \/ clear_merge =>
              UNCHANGED <<current_block_index, blocks, _opcodes, left_text,
                          right_text, sync_var, _spacers_applied>>
       /\ \A prefer \in {"left", "right", "both"} :
              _merge_choice(prefer) /\ merge_text' # merge_text =>
                  LET fragment == Chosen(prefer, blocks[current_block_index + 1])
                  IN  /\ ChosenAfter(prefer) = fragment
                      /\ Buffer(TkInsert(merge_text', InsertPoint(merge_text'), fragment))
                             = Buffer(merge_text') \o fragment]_vars

\* The same block was merged twice: the merged document is its fragment
\* twice over, and the cursor is where it was after the compare.
C24_Witness ==
    /\ report = Message("Appended selection to the merged document.")
    /\ current_block_index = 0
    /\ Len(blocks) = 2
    /\ \E prefer \in {"left", "right", "both"} :
           LET fragment == Chosen(prefer, blocks[current_block_index + 1])
           IN  /\ fragment # <<>>
               /\ Buffer(merge_text) = fragment \o fragment

====
